---- MODULE Spec2Model ----
(***************************************************************************)
(* Model of batch_callflow_to_md.py: the Mermaid call-flow tokenizer       *)
(* (extract_nodes_edges), the label classifier (categorize_target), the    *)
(* menu-tree and queue renderers, the flow-type detector and the batch     *)
(* driver.                                                                 *)
(*                                                                         *)
(* Text is modelled as a sequence of one-character strings, so that the    *)
(* substring tests, regular expressions, lower-casing, replace and strip   *)
(* of the source are computed character by character.                      *)
(***************************************************************************)
EXTENDS Integers, Sequences, FiniteSets, TLC

VARIABLES
    pc,               \* position of the running call
    label,            \* categorize_target: its argument
    category,         \* categorize_target: its return value
    lines,            \* extract_nodes_edges: mermaid_code.splitlines()
    pos,              \* extract_nodes_edges: number of lines consumed by the loop
    nodes,            \* node table: insertion-ordered sequence of <<id, label>>
    edges,            \* edge list: sequence of <<src, label, dst>>
    unmatched_lines,  \* extract_nodes_edges: the unmatched list
    node_writes,      \* number of assignments nodes[...] = ... performed so far
    md,               \* renderer output: sequence of rendered lines (records)
    html_files,       \* batch_process: the list of documents
    limit,            \* batch_process: its limit argument (0 stands for None)
    file_idx,         \* batch_process: number of documents handed to the pipeline
    outputs,          \* per document: what the pipeline left behind
    start_id,         \* resolution / parse_menu_branch: starting node id
    stack,            \* resolution walk: explicit stack of frames
    visited,          \* resolution walk: visited set
    visit_log,        \* resolution walk: the nodes expanded, in order
    result            \* resolution walk: value returned by the outermost call

classifyVars == <<label, category>>
extractVars  == <<lines, pos, unmatched_lines, node_writes>>
graphVars    == <<nodes, edges>>
batchVars    == <<html_files, limit, file_idx, outputs>>
resolveVars  == <<start_id, stack, visited, visit_log, result>>

vars == <<pc, classifyVars, extractVars, graphVars, md, batchVars, resolveVars>>

----------------------------------------------------------------------------
(* Characters and Python string primitives *)

UpperAlpha == <<"A","B","C","D","E","F","G","H","I","J","K","L","M",
                "N","O","P","Q","R","S","T","U","V","W","X","Y","Z">>
LowerAlpha == <<"a","b","c","d","e","f","g","h","i","j","k","l","m",
                "n","o","p","q","r","s","t","u","v","w","x","y","z">>
Digits == <<"0","1","2","3","4","5","6","7","8","9">>

Range(f) == {f[i] : i \in DOMAIN f}
SetMin(S) == CHOOSE x \in S : \A y \in S : x <= y
SetMax(S) == CHOOSE x \in S : \A y \in S : x >= y

IsUpper(c) == c \in Range(UpperAlpha)
IsLower(c) == c \in Range(LowerAlpha)
IsDigit(c) == c \in Range(Digits)
\* \s of the re module, restricted to the characters the model uses
IsSpace(c) == c \in {" ", "\t", "\n", "\r"}

\* str.lower(), one character
LowerChar(c) ==
    IF IsUpper(c) THEN LowerAlpha[CHOOSE i \in 1..26 : UpperAlpha[i] = c] ELSE c

\* str.lower()
lower(s) == [i \in 1..Len(s) |-> LowerChar(s[i])]

\* sub occurs in s starting at index k
OccursAt(sub, s, k) ==
    /\ k >= 1
    /\ k + Len(sub) - 1 <= Len(s)
    /\ \A i \in 1..Len(sub) : s[k + i - 1] = sub[i]

\* Python's  sub in s
Contains(sub, s) == \E k \in 1..(Len(s) - Len(sub) + 1) : OccursAt(sub, s, k)

\* index of the first occurrence of sub in s at or after from; 0 when there is none
Find(sub, s, from) ==
    IF \A k \in from..(Len(s) - Len(sub) + 1) : ~OccursAt(sub, s, k) THEN 0
    ELSE SetMin({k \in from..(Len(s) - Len(sub) + 1) : OccursAt(sub, s, k)})

\* s[a..b], empty when a > b
Slice(s, a, b) == IF a > b THEN <<>> ELSE SubSeq(s, a, b)

\* str.strip()
strip(s) ==
    LET K == {i \in 1..Len(s) : ~IsSpace(s[i])}
    IN IF K = {} THEN <<>> ELSE SubSeq(s, SetMin(K), SetMax(K))

\* str.replace(old, new): non-overlapping occurrences, left to right
RECURSIVE replace(_, _, _)
ReplaceAt(s, old, new, k) ==
    IF k = 0 THEN s
    ELSE Slice(s, 1, k - 1) \o new \o replace(Slice(s, k + Len(old), Len(s)), old, new)

replace(s, old, new) == ReplaceAt(s, old, new, Find(old, s, 1))

\* words joined by single spaces
RECURSIVE Join(_)
Join(ws) ==
    IF ws = <<>> THEN <<>>
    ELSE IF Len(ws) = 1 THEN ws[1]
    ELSE ws[1] \o <<" ">> \o Join(Tail(ws))

----------------------------------------------------------------------------
(* categorize_target *)

kw_voicemail == <<"v","o","i","c","e","m","a","i","l">>
kw_greeting  == <<"g","r","e","e","t","i","n","g">>
kw_directory == <<"d","i","r","e","c","t","o","r","y">>
kw_queue     == <<"q","u","e","u","e">>
kw_transfer  == <<"t","r","a","n","s","f","e","r">>
kw_external  == <<"e","x","t","e","r","n","a","l">>
kw_forward   == <<"f","o","r","w","a","r","d">>

\* re.match(r"[a-z]+\s+[a-z]+", s): anchored at the start only
MatchTwoWords(s) ==
    \E a \in 1..Len(s) : \E b \in 1..Len(s) :
        /\ a + b + 1 <= Len(s)
        /\ \A i \in 1..a : IsLower(s[i])
        /\ \A i \in (a + 1)..(a + b) : IsSpace(s[i])
        /\ IsLower(s[a + b + 1])

\* CategoryOf with the transfer/external/forward rule tested before the queue rule
CategoryOfTransferFirst(l) ==
    IF Contains(kw_voicemail, l) THEN "Voicemail"
    ELSE IF Contains(kw_greeting, l) THEN "Greeting"
    ELSE IF Contains(kw_directory, l) THEN "Directory"
    ELSE IF \/ Contains(kw_transfer, l)
            \/ Contains(kw_external, l)
            \/ Contains(kw_forward, l) THEN "External Transfer"
    ELSE IF Contains(kw_queue, l) THEN "Call Queue"
    ELSE IF MatchTwoWords(l) THEN "Person"
    ELSE "Unknown"

\* the if/elif chain of categorize_target over the lower-cased label
CategoryOf(l) ==
    IF Contains(kw_voicemail, l) THEN "Voicemail"
    ELSE IF Contains(kw_greeting, l) THEN "Greeting"
    ELSE IF Contains(kw_directory, l) THEN "Directory"
    ELSE IF Contains(kw_queue, l) THEN "Call Queue"
    ELSE IF \/ Contains(kw_transfer, l)
            \/ Contains(kw_external, l)
            \/ Contains(kw_forward, l) THEN "External Transfer"
    ELSE IF MatchTwoWords(l) THEN "Person"
    ELSE "Unknown"

\* categorize_target without  label = label.lower()
categorize_targetNoLower(lbl) == CategoryOf(lbl)

categorize_target(lbl) == CategoryOf(lower(lbl))

----------------------------------------------------------------------------
(* extract_nodes_edges: the regular expressions *)

IsNonSpace(c) == ~IsSpace(c)
IsLetter(c) == IsUpper(c) \/ IsLower(c)
\* the character class [a-zA-Z0-9_\-]
IsIdChar(c) == IsLetter(c) \/ IsDigit(c) \/ c \in {"_", "-"}
\* the character class [0-9a-fA-F\-]
IsHexOrDash(c) == IsDigit(c) \/ c \in {"a","b","c","d","e","f","A","B","C","D","E","F","-"}

\* membership of c in a character class of the regular expressions
InClass(c, cls) ==
    CASE cls = "space"    -> IsSpace(c)
      [] cls = "nonspace" -> IsNonSpace(c)
      [] cls = "id"       -> IsIdChar(c)
      [] cls = "letter"   -> IsLetter(c)

\* the least element of E less k, or n when E is empty
FirstOr(E, k, n) == IF E = {} THEN n ELSE SetMin(E) - k

\* length of the longest run of characters of class cls that starts at index k
RunLen(s, k, cls) ==
    IF k > Len(s) THEN 0
    ELSE FirstOr({j \in k..Len(s) : ~InClass(s[j], cls)}, k, Len(s) - k + 1)

\* the index after the whitespace that starts at index k
SkipSpace(s, k) == k + RunLen(s, k, "space")

op_arrow  == <<"-","-",">">>
op_dotted == <<"-",".","-",">">>
op_line   == <<"-","-","-">>
dashes    == <<"-","-">>
br_marker == <<"<","b","r",">">>

NoMatch == [ok |-> FALSE]

\* the tail  -->\s*(\S+)  with the arrow starting at index k
TailOK(s, k) ==
    /\ OccursAt(op_arrow, s, k)
    /\ RunLen(s, SkipSpace(s, k + 3), "nonspace") >= 1

\* the run of non-space characters that starts at index d
TokenAt(s, d) == Slice(s, d, d + RunLen(s, d, "nonspace") - 1)

\* the last group of the edge pattern, the arrow starting at index k
TailDst(s, k) == TokenAt(s, SkipSpace(s, k + 3))

\* \|?-->  at index k: the optional bar is taken when the rest then matches
ArrowStart(s, k) ==
    IF k <= Len(s) /\ s[k] = "|" /\ TailOK(s, k + 1) THEN k + 1 ELSE k

\* (.*?)\|?-->\s*(\S+)  with the lazy group starting at index r: the lengths
\* the lazy group can take
LazyLens(s, r) ==
    {L \in 0..(Len(s) - r + 1) :
        /\ \A i \in r..(r + L - 1) : s[i] # "\n"
        /\ TailOK(s, ArrowStart(s, r + L))}

\* the groups when the lazy group starts at r and takes L characters
LazyAt(s, r, L) ==
    [label |-> Slice(s, r, r + L - 1), dst |-> TailDst(s, ArrowStart(s, r + L))]

\* the lazy group takes the fewest characters for which the rest matches
LazyRest(s, r) == LazyAt(s, r, SetMin(LazyLens(s, r)))

\* index after the first group of length a and the whitespace behind it
AfterSrc(s, a) == SkipSpace(s, a + 1)

\* --\|?  with the dashes at index q: where the lazy group starts; the optional
\* bar is taken when the rest then matches
LabelStart(s, q) ==
    IF q + 2 <= Len(s) /\ s[q + 2] = "|" /\ LazyLens(s, q + 3) # {}
    THEN q + 3 ELSE q + 2

\* --\|?(.*?)\|?-->\s*(\S+)  matches from index q
RestOK(s, q) == OccursAt(dashes, s, q) /\ LazyLens(s, LabelStart(s, q)) # {}

\* the whole pattern matches with a first group of length a
SrcLenOK(s, a) == RestOK(s, AfterSrc(s, a))

EdgeRecord(s, a, rest) ==
    [ok |-> TRUE, src |-> Slice(s, 1, a), label |-> rest.label, dst |-> rest.dst]

\* the first group is greedy: the longest first group that lets the rest match
EdgeFromSrc(s, A) ==
    IF A = {} THEN NoMatch
    ELSE EdgeRecord(s, SetMax(A), LazyRest(s, LabelStart(s, AfterSrc(s, SetMax(A)))))

\* re.match(r'(\S+)\s*--\|?(.*?)\|?-->\s*(\S+)', s)
EdgeMatch(s) ==
    EdgeFromSrc(s, {a \in 1..RunLen(s, 1, "nonspace") : SrcLenOK(s, a)})

\* the guard  any(op in stripped for op in ['-->', '-.->', '---'])
HasConnector(s) ==
    Contains(op_arrow, s) \/ Contains(op_dotted, s) \/ Contains(op_line, s)

\* the five bracket patterns of node_patterns: the opening and the closing text,
\* and whether \s* stands before the opening or after it
node_patterns ==
    << [open |-> <<"(","(">>, close |-> <<")",")">>, spBefore |-> TRUE,  spAfter |-> FALSE],
       [open |-> <<"(","[">>, close |-> <<"]",")">>, spBefore |-> FALSE, spAfter |-> FALSE],
       [open |-> <<"[">>,     close |-> <<"]">>,     spBefore |-> FALSE, spAfter |-> FALSE],
       [open |-> <<"{">>,     close |-> <<"}">>,     spBefore |-> FALSE, spAfter |-> FALSE],
       [open |-> <<">">>,     close |-> <<"]">>,     spBefore |-> FALSE, spAfter |-> TRUE] >>

\* the match, given the identifier p..e-1, the opening at o, the text from t and
\* the closing at c (0 when there is none)
ShapeResult(s, p, e, o, t, c, pat) ==
    IF /\ e > p /\ OccursAt(pat.open, s, o) /\ c # 0
       /\ \A i \in t..(c - 1) : s[i] # "\n"
    THEN [ok |-> TRUE, id |-> Slice(s, p, e - 1), text |-> Slice(s, t, c - 1)]
    ELSE NoMatch

\* the lazy text group ends at the first closing at or after t
ShapeClose(s, p, e, o, t, pat) ==
    ShapeResult(s, p, e, o, t, Find(pat.close, s, t), pat)

ShapeOpen(s, p, e, o, pat) ==
    ShapeClose(s, p, e, o,
               IF pat.spAfter THEN SkipSpace(s, o + Len(pat.open)) ELSE o + Len(pat.open),
               pat)

ShapeId(s, p, e, pat) ==
    ShapeOpen(s, p, e, IF pat.spBefore THEN SkipSpace(s, e) ELSE e, pat)

\* ([a-zA-Z0-9_\-]+) then the brackets of pat, matched from index p
ShapeAt(s, p, pat) == ShapeId(s, p, p + RunLen(s, p, "id"), pat)

s_user == <<"u","s","e","r">>

UserShapeResult(s, p, e, c) ==
    IF /\ OccursAt(s_user, s, p)
       /\ p + 4 <= Len(s) /\ IsLetter(s[p + 4])
       /\ OccursAt(<<"(">>, s, e) /\ c # 0
       /\ \A i \in (e + 1)..(c - 1) : s[i] # "\n"
    THEN [ok |-> TRUE, id |-> Slice(s, p, e - 1), text |-> Slice(s, e + 1, c - 1)]
    ELSE NoMatch

UserShapeId(s, p, e) == UserShapeResult(s, p, e, Find(<<")">>, s, e + 1))

\* (user[a-zA-Z]+[a-zA-Z0-9_\-]*)\((.*?)\)  matched from index p
UserShapeAt(s, p) == UserShapeId(s, p, p + 4 + RunLen(s, p + 4, "id"))

NumPatterns == 6

\* node_patterns[n] matched from index p
PatternAt(n, s, p) ==
    IF n < NumPatterns THEN ShapeAt(s, p, node_patterns[n]) ELSE UserShapeAt(s, p)

\* of the attempts ms, in order, the first that matched
FirstMatch(ms) ==
    IF \A i \in DOMAIN ms : ~ms[i].ok THEN NoMatch
    ELSE ms[SetMin({i \in DOMAIN ms : ms[i].ok})]

\* re.search(node_patterns[n], s): the leftmost index a match starts at
PatternSearch(n, s) == FirstMatch([p \in 1..Len(s) |-> PatternAt(n, s, p)])

\* the loop over node_patterns: the first pattern that matches wins
NodeMatch(s) == FirstMatch([n \in 1..NumPatterns |-> PatternSearch(n, s)])

\* match.group(2).replace('<br>', ' ').strip()
CleanLabel(text) == strip(replace(text, br_marker, <<" ">>))

UuidLen == 36
\* re.fullmatch(r'[0-9a-fA-F\-]{36}', s)
IsBareId(s) == Len(s) = UuidLen /\ \A i \in 1..Len(s) : IsHexOrDash(s[i])

----------------------------------------------------------------------------
(* extract_nodes_edges: the node table and the loop body *)

NodeIds(tbl) == {tbl[i][1] : i \in DOMAIN tbl}
HasNode(tbl, id) == id \in NodeIds(tbl)
IndexOf(tbl, id) == CHOOSE i \in DOMAIN tbl : tbl[i][1] = id
\* nodes[id]
LabelOf(tbl, id) == tbl[IndexOf(tbl, id)][2]
\* nodes.get(id, id)
GetLabel(tbl, id) == IF HasNode(tbl, id) THEN LabelOf(tbl, id) ELSE id

\* SetNode as nodes.setdefault(id, lbl): the first label of an id is kept
SetNodeKeepFirst(tbl, id, lbl) ==
    IF HasNode(tbl, id) THEN tbl ELSE Append(tbl, <<id, lbl>>)

\* nodes[id] = lbl on an insertion-ordered dict: an existing key keeps its place
SetNode(tbl, id, lbl) ==
    IF HasNode(tbl, id)
    THEN [tbl EXCEPT ![IndexOf(tbl, id)] = <<id, lbl>>]
    ELSE Append(tbl, <<id, lbl>>)

\* the effect of a non-blank line, given the edge match em, the node-shape
\* match nm, and whether the line is taken as a bare identifier
ApplyMatches(st, stripped, em, nm, bare) ==
    [nodes |-> IF nm.ok THEN SetNode(st.nodes, nm.id, CleanLabel(nm.text))
               ELSE IF bare THEN SetNode(st.nodes, stripped, <<>>)
               ELSE st.nodes,
     edges |-> IF em.ok
               THEN Append(st.edges, <<strip(em.src), strip(em.label), strip(em.dst)>>)
               ELSE st.edges,
     unmatched |-> IF em.ok \/ nm.ok \/ bare THEN st.unmatched
                   ELSE Append(st.unmatched, stripped),
     writes |-> IF nm.ok \/ bare THEN st.writes + 1 ELSE st.writes]

\* if not matched and re.fullmatch(...)
ApplyBare(st, stripped, em, nm) ==
    ApplyMatches(st, stripped, em, nm, ~em.ok /\ ~nm.ok /\ IsBareId(stripped))

\* the edge attempt of a line: made only when a connector occurs in it
EdgeAttempt(stripped) ==
    IF HasConnector(stripped) THEN EdgeMatch(stripped) ELSE NoMatch

\* ApplyEdge with the node patterns tried only when no edge matched
ApplyEdgeExclusive(st, stripped, em) ==
    ApplyBare(st, stripped, em, IF em.ok THEN NoMatch ELSE NodeMatch(stripped))

\* the node patterns are tried whatever the edge attempt gave
ApplyEdge(st, stripped, em) == ApplyBare(st, stripped, em, NodeMatch(stripped))

\* the body of the loop for a stripped line
ApplyLine(st, stripped) ==
    IF stripped = <<>> THEN st ELSE ApplyEdge(st, stripped, EdgeAttempt(stripped))

\* one pass of the for loop over a line; st is the record of the locals
ExtractLine(st, line) == ApplyLine(st, strip(line))

EmptyTables == [nodes |-> <<>>, edges |-> <<>>, unmatched |-> <<>>, writes |-> 0]

\* the lines of s, the first line boundary being at index k
SplitAt(s, k) ==
    [head |-> Slice(s, 1, k - 1),
     rest |-> Slice(s, IF s[k] = "\r" /\ k < Len(s) /\ s[k + 1] = "\n" THEN k + 2 ELSE k + 1,
                    Len(s))]

\* str.splitlines() for the line boundaries \n, \r and \r\n
RECURSIVE splitlines(_)
SplitRest(parts) == <<parts.head>> \o splitlines(parts.rest)

splitlines(s) ==
    IF s = <<>> THEN <<>>
    ELSE IF \A k \in 1..Len(s) : s[k] \notin {"\n", "\r"} THEN <<s>>
    ELSE SplitRest(SplitAt(s, SetMin({k \in 1..Len(s) : s[k] \in {"\n", "\r"}})))

RECURSIVE ExtractFrom(_, _, _)
ExtractFrom(st, ls, i) ==
    IF i > Len(ls) THEN st ELSE ExtractFrom(ExtractLine(st, ls[i]), ls, i + 1)

\* extract_nodes_edges(mermaid_code): the tables after the whole loop
extract_nodes_edges(code) == ExtractFrom(EmptyTables, splitlines(code), 1)

----------------------------------------------------------------------------
(* Sorting of the keypress map: list.sort(key=...) *)

\* printable ASCII in code point order: code points 32..95 and 97..126
AsciiLow == <<" ","!","\"","#","$","%","&","'","(",")","*","+",",","-",".","/",
              "0","1","2","3","4","5","6","7","8","9",":",";","<","=",">","?","@",
              "A","B","C","D","E","F","G","H","I","J","K","L","M","N","O","P","Q",
              "R","S","T","U","V","W","X","Y","Z","[","\\","]","^","_">>
AsciiHigh == <<"a","b","c","d","e","f","g","h","i","j","k","l","m","n","o","p","q",
               "r","s","t","u","v","w","x","y","z","{","|","}","~">>

\* ord(c)
CodePoint(c) ==
    IF c \in Range(AsciiLow)
    THEN 31 + (CHOOSE i \in DOMAIN AsciiLow : AsciiLow[i] = c)
    ELSE 96 + (CHOOSE i \in DOMAIN AsciiHigh : AsciiHigh[i] = c)

\* a < b on str: lexicographic by code point
StrLess(a, b) ==
    \E k \in 1..(Len(b)) :
        /\ \A i \in 1..(k - 1) : i <= Len(a) /\ a[i] = b[i]
        /\ \/ k = Len(a) + 1
           \/ (k <= Len(a) /\ CodePoint(a[k]) < CodePoint(b[k]))

\* str.isdigit() on the characters the model uses
isdigit(s) == s # <<>> /\ \A i \in 1..Len(s) : IsDigit(s[i])

DigitValue(c) == (CHOOSE i \in 1..10 : Digits[i] = c) - 1

\* int(s) for a string of decimal digits
RECURSIVE int(_)
int(s) == IF s = <<>> THEN 0
          ELSE 10 * int(SubSeq(s, 1, Len(s) - 1)) + DigitValue(s[Len(s)])

\* the order of two items of the keypress map under the sort key: by int(key)
\* when numeric, by key text otherwise
KeyLess(x, y, numeric) ==
    IF numeric THEN int(x.key) < int(y.key) ELSE StrLess(x.key, y.key)

\* the least element of S, or d when S is empty
MinOr(S, d) == IF S = {} THEN d ELSE SetMin(S)

\* r with x inserted before index j
InsertAt(r, x, j) == SubSeq(r, 1, j - 1) \o <<x>> \o SubSeq(r, j, Len(r))

\* insert x into the sorted sequence r after every element that is not
\* greater than it: the step of a stable sort
InsertStable(r, x, numeric) ==
    InsertAt(r, x, MinOr({j \in 1..Len(r) : KeyLess(x, r[j], numeric)}, Len(r) + 1))

\* list.sort is stable
RECURSIVE StableSort(_, _, _)
StableSort(sq, n, numeric) ==
    IF n = 0 THEN <<>>
    ELSE InsertStable(StableSort(sq, n - 1, numeric), sq[n], numeric)

\* SortKeypress with the keys always compared as text
SortKeypressAsText(km) == StableSort(km, Len(km), FALSE)

\* try: km.sort(key=lambda x: int(x[0]) if x[0].isdigit() else x[0])
\* except: km.sort(key=lambda x: x[0])
\* The first sort compares an int key with a str key, and raises, exactly when
\* the keys are mixed; the second then sorts by key text.
SortKeypress(km) ==
    StableSort(km, Len(km), \A i \in DOMAIN km : isdigit(km[i].key))

----------------------------------------------------------------------------
(* parse_menu_branch, parse_auto_attendant *)

s_Menu          == <<"M","e","n","u">>
s_Press         == <<"P","r","e","s","s">>
s_IncomingCall  == <<"I","n","c","o","m","i","n","g"," ","C","a","l","l">>
s_Voicemail     == <<"V","o","i","c","e","m","a","i","l">>
s_Greeting      == <<"G","r","e","e","t","i","n","g">>
s_CallQueue     == <<"C","a","l","l"," ","Q","u","e","u","e">>
s_Agent         == <<"A","g","e","n","t">>

\* "Menu" in v or "Press" in v
LooksLikeMenu(v) == Contains(s_Menu, v) \/ Contains(s_Press, v)

\* [(lbl, dst) for src, lbl, dst in edges if src == node_id and lbl]
Related(edgs, node_id) ==
    LET Keep(e) == e[1] = node_id /\ e[2] # <<>>
    IN SelectSeq(edgs, Keep)

\* (key, target_label, target_type, dest)
KeypressEntry(key, dest, target_label) ==
    [key |-> key, target |-> target_label,
     type |-> categorize_target(target_label), dest |-> dest]

\* the entries of the related (lbl, dst) pairs rel, in their order
KeypressEntries(tbl, rel) ==
    [i \in 1..Len(rel) |-> KeypressEntry(rel[i][2], rel[i][3], GetLabel(tbl, rel[i][3]))]

\* the keypress_map built from the related edges, before sorting
KeypressMap(tbl, edgs, node_id) == KeypressEntries(tbl, Related(edgs, node_id))

PressLine(x) == [kind |-> "press", key |-> x.key, target |-> x.target, type |-> x.type]

PressLines(km) == [i \in 1..Len(km) |-> PressLine(km[i])]

\* parse_menu_branch(start_id, nodes, edges): the lines it joins
parse_menu_branch(sid, tbl, edgs) ==
    PressLines(SortKeypress(KeypressMap(tbl, edgs, sid)))

\* md.append(nested_md): the indented text of parse_menu_branch, one md item
Nested(dest, tbl, edgs) == [kind |-> "nested", lines |-> parse_menu_branch(dest, tbl, edgs)]

\* the entry points section
EntrySection(tbl) ==
    LET Inc(n) == Contains(s_IncomingCall, n[2])
        inc == SelectSeq(tbl, Inc)
    IN IF inc = <<>> THEN <<>>
       ELSE <<[kind |-> "entry_header"]>>
            \o [i \in 1..Len(inc) |-> [kind |-> "entry", text |-> inc[i][2]]]

\* keys of condition_branches in insertion order: the sources of the labelled
\* edges, each at its first occurrence
RECURSIVE BranchSources(_, _)
BranchSources(edgs, i) ==
    IF i = 0 THEN <<>>
    ELSE LET before == BranchSources(edgs, i - 1)
         IN IF edgs[i][2] # <<>> /\ edgs[i][1] \notin Range(before)
            THEN Append(before, edgs[i][1]) ELSE before

\* the lines of one branch (label, dst) of a conditional, dst_label being the
\* label of its destination, with its nested menu
BranchOf(tbl, edgs, b, dst_label) ==
    <<[kind |-> "branch", key |-> b[2], target |-> dst_label,
       type |-> categorize_target(dst_label)]>>
    \o (IF LooksLikeMenu(dst_label) THEN <<Nested(b[3], tbl, edgs)>> ELSE <<>>)

BranchLines(tbl, edgs, b) == BranchOf(tbl, edgs, b, GetLabel(tbl, b[3]))

RECURSIVE BranchesLines(_, _, _, _)
BranchesLines(tbl, edgs, bs, i) ==
    IF i > Len(bs) THEN <<>>
    ELSE BranchLines(tbl, edgs, bs[i]) \o BranchesLines(tbl, edgs, bs, i + 1)

\* the conditional section of one source
ConditionalOf(tbl, edgs, src) ==
    LET bs == Related(edgs, src)
    IN IF Len(bs) >= 2
       THEN <<[kind |-> "cond_header", text |-> GetLabel(tbl, src)]>>
            \o BranchesLines(tbl, edgs, bs, 1)
       ELSE <<>>

RECURSIVE ConditionalSection(_, _, _, _)
ConditionalSection(tbl, edgs, srcs, i) ==
    IF i > Len(srcs) THEN <<>>
    ELSE ConditionalOf(tbl, edgs, srcs[i]) \o ConditionalSection(tbl, edgs, srcs, i + 1)

\* the lines of the sorted keypress map of one menu, with nested menus
RECURSIVE KeypressLines(_, _, _, _)
KeypressLines(tbl, edgs, km, i) ==
    IF i > Len(km) THEN <<>>
    ELSE <<PressLine(km[i])>>
         \o (IF LooksLikeMenu(km[i].target) THEN <<Nested(km[i].dest, tbl, edgs)>> ELSE <<>>)
         \o KeypressLines(tbl, edgs, km, i + 1)

\* the listing of one menu node in the main-menu section
ListingOf(tbl, edgs, n, km) ==
    IF km = <<>> THEN <<[kind |-> "no_options", text |-> n[2]]>>
    ELSE KeypressLines(tbl, edgs, SortKeypress(km), 1)

MenuListing(tbl, edgs, n) == ListingOf(tbl, edgs, n, KeypressMap(tbl, edgs, n[1]))

RECURSIVE MenuListings(_, _, _, _)
MenuListings(tbl, edgs, menus, i) ==
    IF i > Len(menus) THEN <<>>
    ELSE MenuListing(tbl, edgs, menus[i]) \o MenuListings(tbl, edgs, menus, i + 1)

\* the flat menu fallback
MenuSection(tbl, edgs) ==
    LET IsMenu(n) == LooksLikeMenu(n[2])
        menus == SelectSeq(tbl, IsMenu)
    IN IF menus = <<>> THEN <<>>
       ELSE <<[kind |-> "menu_header"]>> \o MenuListings(tbl, edgs, menus, 1)

\* the voicemail destinations section
VoicemailSection(tbl) ==
    LET IsVm(n) == Contains(s_Voicemail, n[2]) \/ Contains(s_Greeting, n[2])
        vms == SelectSeq(tbl, IsVm)
    IN IF vms = <<>> THEN <<>>
       ELSE <<[kind |-> "vm_header"]>>
            \o [i \in 1..Len(vms) |-> [kind |-> "vm", text |-> vms[i][2], id |-> vms[i][1]]]

\* parse_auto_attendant(nodes, edges): the items of md, in order
parse_auto_attendant(tbl, edgs) ==
    <<[kind |-> "title", text |-> "Auto Attendant Call Flow"]>>
    \o EntrySection(tbl)
    \o ConditionalSection(tbl, edgs, BranchSources(edgs, Len(edgs)), 1)
    \o MenuSection(tbl, edgs)
    \o VoicemailSection(tbl)

----------------------------------------------------------------------------
(* parse_call_queue, get_target_label *)

s_ActiveCalls    == <<"A","c","t","i","v","e"," ","C","a","l","l","s","?">>
s_RoutingMethod  == <<"R","o","u","t","i","n","g"," ","M","e","t","h","o","d">>
s_Timeout        == <<"T","i","m","e","o","u","t">>
s_MusicOnHold    == <<"M","u","s","i","c"," ","O","n"," ","H","o","l","d">>
s_AgentListType  == <<"A","g","e","n","t"," ","L","i","s","t"," ","T","y","p","e">>
s_AgentAnswered  == <<"A","g","e","n","t"," ","A","n","s","w","e","r","e","d","?">>
s_AgentAvailable == <<"A","g","e","n","t"," ","A","v","a","i","l","a","b","l","e","?">>
s_yes            == <<"y","e","s">>
s_no             == <<"n","o">>

get_target_label(target, tbl) == GetLabel(tbl, target)

\* re.match(r"[A-Za-z]+\s+[A-Za-z]+", s)
MatchName(s) ==
    \E a \in 1..Len(s) : \E b \in 1..Len(s) :
        /\ a + b + 1 <= Len(s)
        /\ \A i \in 1..a : IsLetter(s[i])
        /\ \A i \in (a + 1)..(a + b) : IsSpace(s[i])
        /\ IsLetter(s[a + b + 1])

\* the labels of the node table that contain sub, in table order
LabelsWith(tbl, sub) ==
    LET Has(n) == Contains(sub, n[2])
        hit == SelectSeq(tbl, Has)
    IN [i \in 1..Len(hit) |-> hit[i][2]]

\* one section showing the first label that contains sub, when there is one
FirstLabelSection(tbl, sub, kind) ==
    LET hit == LabelsWith(tbl, sub)
    IN IF hit = <<>> THEN <<>> ELSE <<[kind |-> kind, text |-> hit[1]]>>

\* the overflow section: the first node whose label contains "Active Calls?"
OverflowSection(tbl, edgs) ==
    LET Has(n) == Contains(s_ActiveCalls, n[2])
        hit == SelectSeq(tbl, Has)
    IN IF hit = <<>> THEN <<>>
       ELSE LET k == hit[1][1]
                IsYes(e) == e[1] = k /\ lower(e[2]) = s_yes
                IsNo(e) == e[1] = k /\ lower(e[2]) = s_no
                yes == SelectSeq(edgs, IsYes)
                no == SelectSeq(edgs, IsNo)
            IN <<[kind |-> "overflow", text |-> hit[1][2]]>>
               \o (IF yes # <<>>
                   THEN <<[kind |-> "yes", target |-> get_target_label(yes[1][3], tbl)]>>
                   ELSE <<>>)
               \o (IF no # <<>> THEN <<[kind |-> "no"]>> ELSE <<>>)

\* the agent list section: one md item holding the list type and the names
AgentSection(tbl) ==
    LET types == LabelsWith(tbl, s_AgentListType)
        IsAgent(n) == MatchName(n[2]) /\ ~Contains(s_Voicemail, n[2])
        agents == SelectSeq(tbl, IsAgent)
    IN IF types = <<>> THEN <<>>
       ELSE <<[kind |-> "agents", text |-> types[1],
               names |-> [i \in 1..Len(agents) |-> agents[i][2]]]>>

\* the fixed agent result logic section
ResultLogicSection(tbl) ==
    <<[kind |-> "logic_header"]>>
    \o (IF LabelsWith(tbl, s_AgentAnswered) # <<>>
        THEN <<[kind |-> "answered"], [kind |-> "not_answered"]>> ELSE <<>>)
    \o (IF LabelsWith(tbl, s_AgentAvailable) # <<>>
        THEN <<[kind |-> "no_agent"]>> ELSE <<>>)

\* parse_call_queue(nodes, edges): the items of md, in order
parse_call_queue(tbl, edgs) ==
    LET names == LabelsWith(tbl, s_CallQueue)
    IN <<[kind |-> "title", text |-> IF names = <<>> THEN s_CallQueue ELSE names[1]]>>
       \o OverflowSection(tbl, edgs)
       \o FirstLabelSection(tbl, s_RoutingMethod, "routing")
       \o FirstLabelSection(tbl, s_Timeout, "timeout")
       \o FirstLabelSection(tbl, s_MusicOnHold, "settings")
       \o AgentSection(tbl)
       \o ResultLogicSection(tbl)

----------------------------------------------------------------------------
(* Values the variables of a call hold while another call is modelled *)

ClassifyIdle == label = <<>> /\ category = "none"
ExtractIdle  == lines = <<>> /\ pos = 0 /\ unmatched_lines = <<>> /\ node_writes = 0
GraphIdle    == nodes = <<>> /\ edges = <<>>
BatchIdle    == html_files = <<>> /\ limit = 0 /\ file_idx = 0 /\ outputs = <<>>
ResolveIdle  == /\ start_id = <<>> /\ stack = <<>> /\ visited = {}
                /\ visit_log = <<>> /\ result = <<>>

\* sequences over S of length 0..n
SeqsUpTo(S, n) == UNION {[1..k -> S] : k \in 0..n}

----------------------------------------------------------------------------
(* Specification of one call of categorize_target *)

MaxWords == 3

w_Sales == <<"S","a","l","e","s">>
w_Queue == <<"Q","u","e","u","e">>
w_Transfer == <<"T","r","a","n","s","f","e","r">>
w_Message == <<"M","e","s","s","a","g","e">>
w_VOICEMAIL == <<"V","O","I","C","E","M","A","I","L">>
w_Greeting == <<"G","r","e","e","t","i","n","g">>
w_Directory == <<"D","i","r","e","c","t","o","r","y">>
w_forward == <<"f","o","r","w","a","r","d">>
w_Jane == <<"J","a","n","e">>
w_Doe == <<"D","o","e">>
w_Node42 == <<"N","o","d","e","4","2">>
w_External == <<"E","x","t","e","r","n","a","l">>

WordPool == {w_Sales, w_Queue, w_Transfer, w_Message, w_VOICEMAIL, w_Greeting,
             w_Directory, w_forward, w_Jane, w_Doe, w_Node42, w_External}

\* the labels the classifier is called with: up to MaxWords words
LabelPool == {Join(ws) : ws \in SeqsUpTo(WordPool, MaxWords)}

InitClassify ==
    /\ pc = "call"
    /\ label \in LabelPool
    /\ category = "none"
    /\ ExtractIdle /\ GraphIdle /\ BatchIdle /\ ResolveIdle /\ md = <<>>

\* category = categorize_target(label)
Categorize ==
    /\ pc = "call"
    /\ category' = categorize_target(label)
    /\ pc' = "returned"
    /\ UNCHANGED <<label, extractVars, graphVars, md, batchVars, resolveVars>>

NextClassify == Categorize

SpecClassify == InitClassify /\ [][NextClassify]_vars

Categories == {"Voicemail", "Greeting", "Directory", "Call Queue",
               "External Transfer", "Person", "Unknown"}

\* word, given in lower case, occurs in lbl in some letter case
ContainsCI(word, lbl) ==
    \E k \in 1..(Len(lbl) - Len(word) + 1) :
        \A i \in 1..Len(word) : LowerChar(lbl[k + i - 1]) = word[i]

kw_transfer_message == kw_transfer \o <<" ">> \o <<"m","e","s","s","a","g","e">>

HasForwarding(lbl) ==
    ContainsCI(kw_transfer, lbl) \/ ContainsCI(kw_external, lbl) \/ ContainsCI(kw_forward, lbl)

\* C3: the category returned is one of the seven, decided by the first keyword
\* rule that matches in the order voicemail, greeting, directory, queue,
\* transfer/external/forward, whatever the letter case; so a label with "queue"
\* and none of "voicemail", "greeting", "directory" is Call Queue even when it
\* also holds "transfer", "external" or "forward".
C3_KeywordPrecedence ==
    pc = "returned" =>
        /\ category \in Categories
        /\ ContainsCI(kw_voicemail, label) => category = "Voicemail"
        /\ (~ContainsCI(kw_voicemail, label) /\ ContainsCI(kw_greeting, label))
              => category = "Greeting"
        /\ (/\ ~ContainsCI(kw_voicemail, label) /\ ~ContainsCI(kw_greeting, label)
            /\ ContainsCI(kw_directory, label)) => category = "Directory"
        /\ (/\ ContainsCI(kw_queue, label)
            /\ ~ContainsCI(kw_voicemail, label) /\ ~ContainsCI(kw_greeting, label)
            /\ ~ContainsCI(kw_directory, label)) => category = "Call Queue"
        /\ (/\ HasForwarding(label) /\ ~ContainsCI(kw_queue, label)
            /\ ~ContainsCI(kw_voicemail, label) /\ ~ContainsCI(kw_greeting, label)
            /\ ~ContainsCI(kw_directory, label)) => category = "External Transfer"

\* "Sales Queue Transfer" has been classified, as Call Queue
C3_Witness ==
    /\ pc = "returned"
    /\ label = Join(<<w_Sales, w_Queue, w_Transfer>>)
    /\ category = "Call Queue"

\* C4: a label that contains "transfer message" in any letter case, and no
\* "voicemail", is classified Greeting.
C4_TransferMessageIsGreeting ==
    (/\ pc = "returned"
     /\ ContainsCI(kw_transfer_message, label)
     /\ ~ContainsCI(kw_voicemail, label)) => category = "Greeting"

NoKeyword(lbl) ==
    /\ ~ContainsCI(kw_voicemail, lbl) /\ ~ContainsCI(kw_greeting, lbl)
    /\ ~ContainsCI(kw_directory, lbl) /\ ~ContainsCI(kw_queue, lbl)
    /\ ~HasForwarding(lbl)

\* the label starts with an alphabetic token, then whitespace, then a letter:
\* the two-word pattern, which the source matches at the start of the label
\* and does not anchor at its end
TwoWordPattern(lbl) ==
    LET a == RunLen(lbl, 1, "letter")
        b == RunLen(lbl, a + 1, "space")
    IN a >= 1 /\ b >= 1 /\ a + b + 1 <= Len(lbl) /\ IsLetter(lbl[a + b + 1])

----------------------------------------------------------------------------
(* Specification of one call of extract_nodes_edges, one loop pass per step *)

MaxLines == 2

\* A --|1|--> B
ln_labelled == <<"A"," ","-","-","|","1","|","-","-",">"," ","B">>
\* A --> B
ln_plain == <<"A"," ","-","-",">"," ","B">>
\* A -.-> B
ln_dotted == <<"A"," ","-",".","-",">"," ","B">>
\* A[Start] --|2|--> B{Menu}
ln_both == <<"A","[","S","t","a","r","t","]"," ","-","-","|","2","|","-","-",">"," ","B","{","M","e","n","u","}">>
\* B[ Sales<br>Team ]
ln_node_br == <<"B","["," ","S","a","l","e","s","<","b","r",">","T","e","a","m"," ","]">>
\* B[Other]
ln_node_other == <<"B","[","O","t","h","e","r","]">>
\* a1b2c3d4-0000-4abc-8def-0123456789ab
ln_uuid == <<"a","1","b","2","c","3","d","4","-","0","0","0","0","-","4","a","b","c","-","8","d","e","f","-","0","1","2","3","4","5","6","7","8","9","a","b">>
\* a1b2c3d4-0000-4abc-8def-0123456789ab[Agent]
ln_uuid_label == <<"a","1","b","2","c","3","d","4","-","0","0","0","0","-","4","a","b","c","-","8","d","e","f","-","0","1","2","3","4","5","6","7","8","9","a","b","[","A","g","e","n","t","]">>
\* graph TD
ln_header == <<"g","r","a","p","h"," ","T","D">>
\*   
ln_blank == <<" "," ">>

LinePool == {ln_labelled, ln_plain, ln_dotted, ln_both, ln_node_br, ln_node_other,
             ln_uuid, ln_uuid_label, ln_header, ln_blank}

\* the lines joined by newlines: the text handed to extract_nodes_edges
RECURSIVE JoinLines(_)
JoinLines(ls) ==
    IF ls = <<>> THEN <<>>
    ELSE IF Len(ls) = 1 THEN ls[1]
    ELSE ls[1] \o <<"\n">> \o JoinLines(Tail(ls))

CodePool == {JoinLines(ls) : ls \in SeqsUpTo(LinePool, MaxLines)}

InitExtract ==
    /\ pc = "loop"
    /\ \E code \in CodePool : lines = splitlines(code)
    /\ pos = 0
    /\ nodes = <<>> /\ edges = <<>> /\ unmatched_lines = <<>> /\ node_writes = 0
    /\ ClassifyIdle /\ BatchIdle /\ ResolveIdle /\ md = <<>>

\* the locals of extract_nodes_edges as one record
Tables == [nodes |-> nodes, edges |-> edges, unmatched |-> unmatched_lines,
           writes |-> node_writes]

\* the locals after a pass of the loop
StoreTables(st) ==
    /\ nodes' = st.nodes
    /\ edges' = st.edges
    /\ unmatched_lines' = st.unmatched
    /\ node_writes' = st.writes

\* one pass of  for line in lines
ExtractStep ==
    /\ pc = "loop"
    /\ pos < Len(lines)
    /\ StoreTables(ExtractLine(Tables, lines[pos + 1]))
    /\ pos' = pos + 1
    /\ UNCHANGED <<pc, lines, classifyVars, md, batchVars, resolveVars>>

\* the loop is over: the unmatched lines are logged and (nodes, edges) returned
ExtractReturn ==
    /\ pc = "loop"
    /\ pos = Len(lines)
    /\ pc' = "returned"
    /\ UNCHANGED <<classifyVars, extractVars, graphVars, md, batchVars, resolveVars>>

NextExtract == ExtractStep \/ ExtractReturn

SpecExtract == InitExtract /\ [][NextExtract]_vars

\* the whitespace-separated tokens of s
RECURSIVE Words(_)
Words(s) ==
    LET t == strip(s)
        n == RunLen(t, 1, "nonspace")
    IN IF t = <<>> THEN <<>>
       ELSE <<Slice(t, 1, n)>> \o Words(Slice(t, n + 1, Len(t)))

bar_arrow == <<"|">> \o op_arrow
dashes_bar == dashes \o <<"|">>

\* tok is the labelled connector --|label|-->
IsLabelledConnector(tok) ==
    /\ Len(tok) >= Len(dashes_bar) + Len(bar_arrow)
    /\ OccursAt(dashes_bar, tok, 1)
    /\ OccursAt(bar_arrow, tok, Len(tok) - Len(bar_arrow) + 1)

\* the line reads  SOURCE connector DESTINATION  with one of the three connectors
IsEdgeForm(line) ==
    LET w == Words(line)
    IN /\ Len(w) = 3
       /\ (w[2] = op_arrow \/ w[2] = op_dotted \/ IsLabelledConnector(w[2]))

\* the edge such a line declares: the label is empty when the connector has none
DeclaredEdge(line) ==
    LET w == Words(line)
    IN <<w[1],
         IF IsLabelledConnector(w[2])
         THEN Slice(w[2], Len(dashes_bar) + 1, Len(w[2]) - Len(bar_arrow))
         ELSE <<>>,
         w[3]>>

\* C6: a pass of the loop over a line  SOURCE connector DESTINATION, the
\* connector being --|label|-->, --> or -.->, appends exactly the edge
\* (SOURCE, label, DESTINATION) to the end of the edge list, the label being
\* empty when the connector has none.
C6_ConnectorLineAppendsEdge ==
    [][(pc = "loop" /\ pos < Len(lines) /\ IsEdgeForm(lines[pos + 1]))
          => edges' = Append(edges, DeclaredEdge(lines[pos + 1]))]_vars

\* what line i gives: whether the edge pattern matches it, and what it declares
\* in the node table (the identifier and raw text a node shape captured, or a
\* bare identifier with no text)
LineFacts(i) ==
    LET s == strip(lines[i])
        nm == NodeMatch(s)
    IN [stripped |-> s,
        edge |-> EdgeMatch(s).ok,
        declares |-> nm.ok \/ IsBareId(s),
        id |-> IF nm.ok THEN nm.id ELSE s,
        text |-> IF nm.ok THEN nm.text ELSE <<>>]

\* the facts of the first n lines
RECURSIVE FactsUpTo(_)
FactsUpTo(n) == IF n = 0 THEN <<>> ELSE Append(FactsUpTo(n - 1), LineFacts(n))

\* raw with every "<br>" turned into one space: position by position
BrToSpace(raw) ==
    LET starts == {k \in 1..Len(raw) : OccursAt(br_marker, raw, k)}
        marked == [i \in 1..Len(raw) |->
                     IF i \in starts THEN " "
                     ELSE IF \E k \in starts : k < i /\ i < k + Len(br_marker) THEN "drop"
                     ELSE raw[i]]
        Kept(c) == c # "drop"
    IN SelectSeq(marked, Kept)

\* lbl is t without the whitespace around it
IsTrimOf(lbl, t) ==
    /\ lbl # <<>> => (~IsSpace(lbl[1]) /\ ~IsSpace(lbl[Len(lbl)]))
    /\ \E a \in 0..Len(t) :
          /\ a + Len(lbl) <= Len(t)
          /\ \A i \in 1..Len(lbl) : t[a + i] = lbl[i]
          /\ \A i \in 1..a : IsSpace(t[i])
          /\ \A i \in (a + Len(lbl) + 1)..Len(t) : IsSpace(t[i])

\* C8: when extract_nodes_edges returns, whatever the lines were, the node
\* table holds one entry per identifier; its label is the text captured from
\* the last line that declared the identifier,
\* with every "<br>" replaced by a space and the surrounding whitespace
\* trimmed, and is empty when that line is a bare 36-character identifier.
C8_LastWriteWins ==
    pc = "returned" =>
        LET F == FactsUpTo(pos)
            decl == {i \in 1..pos : F[i].declares}
            Last(id) == SetMax({i \in decl : F[i].id = id})
        IN /\ \A i, j \in DOMAIN nodes : nodes[i][1] = nodes[j][1] => i = j
           /\ NodeIds(nodes) = {F[i].id : i \in decl}
           /\ \A n \in DOMAIN nodes :
                 /\ IsTrimOf(nodes[n][2], BrToSpace(F[Last(nodes[n][1])].text))
                 /\ ~Contains(br_marker, nodes[n][2])
           /\ \A n \in DOMAIN nodes :
                 LET k == Last(nodes[n][1])
                 IN (Len(F[k].stripped) = UuidLen /\ F[k].id = F[k].stripped)
                       => nodes[n][2] = <<>>

\* B was declared as "Other" and then again with a line break and padding
C8_Witness ==
    /\ pc = "returned"
    /\ lines = <<ln_node_other, ln_node_br>>
    /\ nodes = << <<<<"B">>, <<"S","a","l","e","s"," ","T","e","a","m">>>> >>

\* the lines of F that satisfy neither match, stripped, in order
Neither(f) == f.stripped # <<>> /\ ~f.edge /\ ~f.declares

RECURSIVE StrippedOf(_)
StrippedOf(F) ==
    IF F = <<>> THEN <<>> ELSE <<Head(F).stripped>> \o StrippedOf(Tail(F))

\* C9: when extract_nodes_edges returns, every line was consumed; every
\* non-blank line that the edge pattern matches has appended one edge and every
\* non-blank line that a node shape (or the bare identifier form) matches has
\* set one node, each whatever the other gave; the unmatched list holds exactly
\* the non-blank lines that gave neither, in order; blank lines gave nothing.
C9_IndependentExtraction ==
    pc = "returned" =>
        LET F == FactsUpTo(Len(lines))
        IN /\ pos = Len(lines)
           /\ Len(edges) = Cardinality({i \in DOMAIN F : F[i].edge})
           /\ node_writes = Cardinality({i \in DOMAIN F : F[i].declares})
           /\ unmatched_lines = StrippedOf(SelectSeq(F, Neither))
           /\ \A i \in DOMAIN F :
                 F[i].stripped = <<>> => (~F[i].edge /\ ~F[i].declares)

\* an unmatched line was followed by a line that gave both an edge and a node
C9_Witness ==
    /\ pc = "returned"
    /\ lines = <<ln_header, ln_both>>
    /\ unmatched_lines = <<ln_header>>
    /\ Len(edges) = 1 /\ node_writes = 1 /\ Len(nodes) = 1

----------------------------------------------------------------------------
\* The menu-tree renderer over small graphs

MaxMenuEdges == 3

id_M == <<"M">>
id_S == <<"S">>
id_V == <<"V">>
id_zz == <<"z","z">>

lbl_MainMenu == <<"M","a","i","n"," ","M","e","n","u">>
lbl_PressSub == <<"P","r","e","s","s"," ","1"," ","S","u","b">>
lbl_Support == <<"S","u","p","p","o","r","t">>
lbl_Voicemail == <<"V","o","i","c","e","m","a","i","l">>

key_2 == <<"2">>
key_10 == <<"1","0">>
key_star == <<"*">>

\* node tables as extract_nodes_edges builds them: one entry per identifier
TablePool ==
    { << <<id_M, lbl_MainMenu>>, <<id_V, lbl_Voicemail>>, <<id_S, lbl_PressSub>> >>,
      << <<id_M, lbl_MainMenu>>, <<id_S, lbl_Support>> >> }

\* edges (src, label, dst); zz is declared in no table
EdgePool ==
    { <<id_M, key_2, id_V>>, <<id_M, key_10, id_S>>, <<id_M, key_star, id_zz>>,
      <<id_M, <<>>, id_V>>, <<id_M, key_2, id_zz>>,
      <<id_S, key_10, id_V>>, <<id_S, key_2, id_zz>>, <<id_S, key_star, id_M>> }

InitMenu ==
    /\ pc = "graph"
    /\ nodes \in TablePool
    /\ edges \in SeqsUpTo(EdgePool, MaxMenuEdges)
    /\ md = <<>>
    /\ start_id = <<>> /\ stack = <<>> /\ visited = {} /\ visit_log = <<>> /\ result = <<>>
    /\ ClassifyIdle /\ ExtractIdle /\ BatchIdle

\* markdown = parse_auto_attendant(nodes, edges)
RenderMenu ==
    /\ pc = "graph"
    /\ md' = parse_auto_attendant(nodes, edges)
    /\ pc' = "menu_rendered"
    /\ UNCHANGED <<classifyVars, extractVars, graphVars, batchVars, resolveVars>>

\* parse_menu_branch(start_id, nodes, edges) for a node of the table
RenderBranch ==
    /\ pc = "graph"
    /\ \E n \in DOMAIN nodes :
          /\ start_id' = nodes[n][1]
          /\ md' = parse_menu_branch(nodes[n][1], nodes, edges)
    /\ pc' = "branch_rendered"
    /\ UNCHANGED <<classifyVars, extractVars, graphVars, batchVars,
                   stack, visited, visit_log, result>>

NextMenu == RenderMenu \/ RenderBranch

SpecMenu == InitMenu /\ [][NextMenu]_vars

\* the outgoing edges of node id that carry a label
LabelledOut(id) ==
    LET Out(e) == e[1] = id /\ e[2] # <<>>
    IN SelectSeq(edges, Out)

\* what an entry for edge e shows: its key and the destination's label, the raw
\* destination id when the destination is not declared
Shown(e) ==
    <<e[2], IF \E n \in DOMAIN nodes : nodes[n][1] = e[3]
            THEN nodes[CHOOSE n \in DOMAIN nodes : nodes[n][1] = e[3]][2]
            ELSE e[3]>>

\* how many times x occurs in sq
Count(sq, x) == Cardinality({i \in DOMAIN sq : sq[i] = x})

\* the entries ent (press lines) are those of node id, in the claimed order
EntriesOf(ent, id) ==
    LET out == LabelledOut(id)
        shown == [i \in DOMAIN out |-> Shown(out[i])]
        got == [i \in DOMAIN ent |-> <<ent[i].key, ent[i].target>>]
        allnum == \A i \in DOMAIN ent : isdigit(ent[i].key)
    IN /\ Len(ent) = Len(out)
       /\ \A x \in Range(shown) \cup Range(got) : Count(got, x) = Count(shown, x)
       /\ \A i \in 1..(Len(ent) - 1) :
             IF allnum THEN int(ent[i].key) <= int(ent[i + 1].key)
             ELSE ~StrLess(ent[i + 1].key, ent[i].key)

\* the press lines of the main-menu listing, nested listings left aside
TopPress ==
    LET IsPress(x) == x.kind = "press"
    IN SelectSeq(md, IsPress)

\* the menu nodes of the table, in table order
MenuNodes ==
    LET IsMenu(n) == LooksLikeMenu(n[2])
    IN SelectSeq(nodes, IsMenu)

\* the number of entries of the first k menu nodes
RECURSIVE EntriesBefore(_)
EntriesBefore(k) ==
    IF k = 0 THEN 0 ELSE EntriesBefore(k - 1) + Len(LabelledOut(MenuNodes[k][1]))

\* C10: the entries listed for a menu node, in the main-menu listing and in
\* parse_menu_branch, are exactly its outgoing edges with a non-empty label,
\* each with the destination's label (the raw id of an undeclared destination),
\* ascending by numeric value when every key is numeric and by key text
\* otherwise.
C10_MenuEntries ==
    /\ pc = "menu_rendered" =>
          /\ Len(TopPress) = EntriesBefore(Len(MenuNodes))
          /\ \A k \in DOMAIN MenuNodes :
                EntriesOf(SubSeq(TopPress, EntriesBefore(k - 1) + 1, EntriesBefore(k)),
                          MenuNodes[k][1])
    /\ pc = "branch_rendered" => EntriesOf(md, start_id)

\* key 10 was declared before key 2, and key 2 leads to an undeclared node
C10_Witness ==
    /\ pc = "menu_rendered"
    /\ edges = << <<id_M, key_10, id_S>>, <<id_M, key_2, id_zz>> >>
    /\ nodes[2][2] = lbl_Support
    /\ TopPress = << [kind |-> "press", key |-> key_2, target |-> id_zz, type |-> "Unknown"],
                     [kind |-> "press", key |-> key_10, target |-> lbl_Support,
                      type |-> "Unknown"] >>

----------------------------------------------------------------------------
\* The per-document pipeline and the batch driver

\* the exception classes the pipeline can raise; all derive from Exception
ExceptionClasses == {"Exception", "OSError"}

\* extract_mermaid_code(html_file): open() fails on an unreadable file, a file
\* without a mermaid code block raises Exception, otherwise the block's text
extract_mermaid_code(doc) ==
    IF doc.kind = "unreadable" THEN [raised |-> "OSError", text |-> <<>>]
    ELSE IF doc.kind = "noblock" THEN [raised |-> "Exception", text |-> <<>>]
    ELSE [raised |-> "none", text |-> doc.code]

\* the detector of generate_markdown_from_html
DetectFlow(tbl) ==
    IF \E n \in DOMAIN tbl : LooksLikeMenu(tbl[n][2]) THEN "menu"
    ELSE IF \E n \in DOMAIN tbl :
               Contains(s_CallQueue, tbl[n][2]) \/ Contains(s_Agent, tbl[n][2])
    THEN "queue"
    ELSE "unsupported"

\* the markdown the selected renderer returns
RenderAs(flow, tbl, edgs) ==
    IF flow = "menu" THEN parse_auto_attendant(tbl, edgs)
    ELSE IF flow = "queue" THEN parse_call_queue(tbl, edgs)
    ELSE <<[kind |-> "unsupported", text |-> "Unsupported call flow format."]>>

\* write_markdown(md_text, output_file): open() for writing may fail
write_markdown(disk_ok) == IF disk_ok THEN "none" ELSE "OSError"

\* the body of the try block once the code block was extracted
Rendered(st, flow, disk_ok) ==
    [raised |-> write_markdown(disk_ok), nodes |-> st.nodes, edges |-> st.edges,
     renderer |-> flow, md |-> RenderAs(flow, st.nodes, st.edges)]

Detected(st, disk_ok) == Rendered(st, DetectFlow(st.nodes), disk_ok)

\* nothing was extracted: the pipeline raised before the detector
NotRendered(exc) ==
    [raised |-> exc, nodes |-> <<>>, edges |-> <<>>, renderer |-> "none", md |-> <<>>]

PipelineFrom(got, disk_ok) ==
    IF got.raised # "none" THEN NotRendered(got.raised)
    ELSE Detected(extract_nodes_edges(got.text), disk_ok)

\* the try block of generate_markdown_from_html for one document
Pipeline(doc, disk_ok) == PipelineFrom(extract_mermaid_code(doc), disk_ok)

\* except-clause that handles OSError only
CaughtOSErrorOnly(exc) == exc = "OSError"

\* except Exception as e
Caught(exc) == exc \in ExceptionClasses

\* html_files[:limit]
Truncate(files, lim) ==
    IF lim >= 0 THEN SubSeq(files, 1, SetMin({lim, Len(files)}))
    ELSE SubSeq(files, 1, SetMax({Len(files) + lim, 0}))

\* what the call for document i left behind
Outcome(i, r, disk_ok) ==
    [file |-> i, status |-> IF r.raised = "none" THEN "written" ELSE "failed",
     renderer |-> r.renderer, disk_ok |-> disk_ok]

\* generate_markdown_from_html returned (r is what its try block did), or the
\* exception left it and batch_process with it
Returned(r, disk_ok) ==
    IF r.raised = "none" \/ Caught(r.raised)
    THEN /\ outputs' = Append(outputs, Outcome(file_idx + 1, r, disk_ok))
         /\ file_idx' = file_idx + 1
         /\ nodes' = r.nodes /\ edges' = r.edges /\ md' = r.md
         /\ pc' = pc
    ELSE /\ pc' = "aborted"
         /\ UNCHANGED <<outputs, file_idx, nodes, edges, md>>

\* batch_process up to the loop: the file list, cut to the limit when one is given
BatchStart ==
    /\ pc = "start"
    /\ html_files' = IF limit # 0 THEN Truncate(html_files, limit) ELSE html_files
    /\ pc' = "files"
    /\ UNCHANGED <<limit, file_idx, outputs, classifyVars, extractVars, graphVars, md,
                   resolveVars>>

\* one pass of  for file in html_files: generate_markdown_from_html(file)
GenerateMarkdown ==
    /\ pc = "files"
    /\ file_idx < Len(html_files)
    /\ \E disk_ok \in BOOLEAN :
          Returned(Pipeline(html_files[file_idx + 1], disk_ok), disk_ok)
    /\ UNCHANGED <<html_files, limit, classifyVars, extractVars, resolveVars>>

\* the loop of batch_process is over
BatchDone ==
    /\ pc = "files"
    /\ file_idx = Len(html_files)
    /\ pc' = "done"
    /\ UNCHANGED <<classifyVars, extractVars, graphVars, md, batchVars, resolveVars>>

NextBatch == BatchStart \/ GenerateMarkdown \/ BatchDone

----------------------------------------------------------------------------
\* Batches of documents

MaxFiles == 3

code_menu == <<"M","[","M","a","i","n"," ","M","e","n","u","]">>
code_queue == <<"Q","[","C","a","l","l"," ","Q","u","e","u","e","]">>

d_menu == [kind |-> "html", code |-> code_menu]
d_queue == [kind |-> "html", code |-> code_queue]
d_other == [kind |-> "html", code |-> ln_header]
d_noblock == [kind |-> "noblock", code |-> <<>>]
d_unreadable == [kind |-> "unreadable", code |-> <<>>]

DocPool == {d_menu, d_queue, d_other, d_noblock, d_unreadable}

\* --limit: 0 stands for no limit given (None and 0 are both falsy)
LimitPool == {0, 1, -1}

InitBatch ==
    /\ pc = "start"
    /\ html_files \in SeqsUpTo(DocPool, MaxFiles)
    /\ limit \in LimitPool
    /\ file_idx = 0 /\ outputs = <<>>
    /\ md = <<>>
    /\ ClassifyIdle /\ ExtractIdle /\ GraphIdle /\ ResolveIdle

SpecBatch == InitBatch /\ [][NextBatch]_vars

\* document i of the list does not fail: it holds a diagram block and its
\* output file could be written
DoesNotFail(i) == html_files[i].kind = "html" /\ outputs[i].disk_ok

\* C1: whatever documents of the batch fail, no exception leaves
\* generate_markdown_from_html, the loop of batch_process goes through every
\* document of the list, and a document that does not fail has its output
\* written however many documents before it failed.
C1_BatchSurvivesFailures ==
    /\ pc # "aborted"
    /\ Len(outputs) = file_idx
    /\ \A i \in DOMAIN outputs :
          /\ outputs[i].file = i
          /\ DoesNotFail(i) => outputs[i].status = "written"
          /\ ~DoesNotFail(i) => outputs[i].status = "failed"
    /\ pc = "done" => file_idx = Len(html_files)

\* two documents failed, one for each cause, and the third was written
C1_Witness ==
    /\ pc = "done"
    /\ html_files = <<d_noblock, d_unreadable, d_menu>>
    /\ outputs[1].status = "failed" /\ outputs[2].status = "failed"
    /\ outputs[3].status = "written" /\ outputs[3].renderer = "menu"

----------------------------------------------------------------------------
\* Single documents of declared nodes, for the detector

MaxDocNodes == 2

dl_MainMenu == <<"N","[","M","a","i","n"," ","M","e","n","u","]">>
dl_press == <<"N","[","p","r","e","s","s"," ","1"," ","f","o","r"," ","s","a","l","e","s","]">>
dl_KeyPress == <<"N","[","K","e","y"," ","P","r","e","s","s"," ","2","]">>
dl_CallQueue == <<"Q","[","C","a","l","l"," ","Q","u","e","u","e","]">>
dl_agent == <<"Q","[","a","g","e","n","t"," ","p","o","o","l","]">>
dl_AgentSmith == <<"Q","[","A","g","e","n","t"," ","S","m","i","t","h","]">>
dl_Voicemail == <<"V","[","V","o","i","c","e","m","a","i","l","]">>

DetectLinePool == {dl_MainMenu, dl_press, dl_KeyPress, dl_CallQueue, dl_agent,
                   dl_AgentSmith, dl_Voicemail}

DetectDocPool ==
    {[kind |-> "html", code |-> JoinLines(ls)] : ls \in SeqsUpTo(DetectLinePool, MaxDocNodes)}

InitDetect ==
    /\ pc = "start"
    /\ \E doc \in DetectDocPool : html_files = <<doc>>
    /\ limit \in {0, 1}
    /\ file_idx = 0 /\ outputs = <<>>
    /\ md = <<>>
    /\ ClassifyIdle /\ ExtractIdle /\ GraphIdle /\ ResolveIdle

SpecDetect == InitDetect /\ [][NextBatch]_vars

kw_menu == <<"m","e","n","u">>
kw_press == <<"p","r","e","s","s">>
kw_call_queue == <<"c","a","l","l"," ","q","u","e","u","e">>
kw_agent == <<"a","g","e","n","t">>

\* some label of the table contains the word, in whatever case
SomeLabelHas(word, tbl) == \E n \in DOMAIN tbl : ContainsCI(word, tbl[n][2])

\* C2: the detector picks the menu-tree renderer if any node label contains
\* "menu" or "press", whatever else the labels contain; otherwise the queue
\* renderer if any label contains "call queue" or "agent"; otherwise the
\* "unsupported format" placeholder, without raising an error.
C2_DetectorPrecedence ==
    (file_idx >= 1 /\ pc # "aborted") =>
        /\ outputs[file_idx].renderer =
              IF SomeLabelHas(kw_menu, nodes) \/ SomeLabelHas(kw_press, nodes) THEN "menu"
              ELSE IF SomeLabelHas(kw_call_queue, nodes) \/ SomeLabelHas(kw_agent, nodes)
                   THEN "queue"
                   ELSE "unsupported"
        /\ outputs[file_idx].renderer = "unsupported"
              => md = <<[kind |-> "unsupported", text |-> "Unsupported call flow format."]>>

----------------------------------------------------------------------------
\* Resolution policy A (resolve_final_label), as the specification describes it

MinPhoneDigits == 10

\* a bare phone number: 10 or more digits, with an optional leading "+1"
IsPhoneNumber(lbl) ==
    LET body == IF Len(lbl) >= 2 /\ lbl[1] = "+" /\ lbl[2] = "1"
                THEN SubSeq(lbl, 3, Len(lbl)) ELSE lbl
    IN Len(body) >= MinPhoneDigits /\ \A i \in DOMAIN body : IsDigit(body[i])

\* the bracket-delimited terminal-node convention
IsBracketed(lbl) == Len(lbl) >= 2 /\ lbl[1] = "[" /\ lbl[Len(lbl)] = "]"

\* a label is terminal if it is bracket-delimited, or non-empty and neither a
\* bare phone number nor of the 36-character identifier shape
IsTerminalLabel(lbl) ==
    \/ IsBracketed(lbl)
    \/ (lbl # <<>> /\ ~IsPhoneNumber(lbl) /\ ~IsBareId(lbl))

\* the destinations of the outgoing edges of node id, in declaration order
Destinations(edgs, id) ==
    LET From(e) == e[1] = id
        out == SelectSeq(edgs, From)
    IN [i \in DOMAIN out |-> out[i][3]]

\* a visited check that never finds the node
NeverVisited(id, vis) == FALSE

\* the node is in the visited set of the current walk
AlreadyVisited(id, vis) == id \in vis

\* the frame on top of the call stack: the node and the next destination to
\* try (0 while the call has just been made)
Top == stack[Len(stack)]

Pop == SubSeq(stack, 1, Len(stack) - 1)

\* a call comes back with no result: the caller goes on, or the walk is over
ReturnEmpty ==
    /\ stack' = Pop
    /\ IF Len(stack) = 1
       THEN pc' = "done" /\ result' = <<>>
       ELSE UNCHANGED <<pc, result>>

\* marks the node of the top frame as visited
MarkVisited ==
    /\ visited' = visited \cup {Top.node}
    /\ visit_log' = Append(visit_log, Top.node)

MaxResEdges == 3
MaxDepth == 5

id_A == <<"A">>
id_B == <<"B">>
id_C == <<"C">>

lbl_phone == <<"5","5","5","1","2","3","4","5","6","7">>
lbl_Sales == <<"S","a","l","e","s">>

\* node tables: A and B declared, C declared or not
ResTablePool ==
    { << <<id_A, la>>, <<id_B, lb>> >> \o tc :
        la \in {<<>>, lbl_phone}, lb \in {<<>>, lbl_phone, lbl_Sales},
        tc \in {<<>>, << <<id_C, <<>>>> >>, << <<id_C, lbl_Sales>> >>} }

ResEdgePool ==
    { <<id_A, <<>>, id_B>>, <<id_B, <<>>, id_A>>, <<id_A, <<>>, id_C>>,
      <<id_B, <<>>, id_C>>, <<id_B, <<>>, id_B>> }

\* resolve_final_label(start_id, nodes, edges) was called with an empty visited set
InitResolve ==
    /\ pc = "resolving"
    /\ nodes \in ResTablePool
    /\ edges \in SeqsUpTo(ResEdgePool, MaxResEdges)
    /\ start_id = id_A
    /\ stack = <<[node |-> id_A, next |-> 0]>>
    /\ visited = {} /\ visit_log = <<>> /\ result = <<>>
    /\ md = <<>>
    /\ ClassifyIdle /\ ExtractIdle /\ BatchIdle

\* the call finds its node in the visited set: no result for this branch
ResolveSkip ==
    /\ pc = "resolving"
    /\ Top.next = 0
    /\ AlreadyVisited(Top.node, visited)
    /\ ReturnEmpty
    /\ UNCHANGED <<visited, visit_log, start_id>>
    /\ UNCHANGED <<classifyVars, extractVars, graphVars, md, batchVars>>

\* the node's own label is terminal: it is returned at once, and every caller
\* returns the first non-empty result it gets
ResolveTerminal ==
    /\ pc = "resolving"
    /\ Top.next = 0
    /\ ~AlreadyVisited(Top.node, visited)
    /\ IsTerminalLabel(GetLabel(nodes, Top.node))
    /\ MarkVisited
    /\ result' = GetLabel(nodes, Top.node)
    /\ stack' = <<>>
    /\ pc' = "done"
    /\ UNCHANGED <<start_id, classifyVars, extractVars, graphVars, md, batchVars>>

\* the label is not terminal: the call turns to the outgoing edges
ResolveExpand ==
    /\ pc = "resolving"
    /\ Top.next = 0
    /\ ~AlreadyVisited(Top.node, visited)
    /\ ~IsTerminalLabel(GetLabel(nodes, Top.node))
    /\ MarkVisited
    /\ stack' = [stack EXCEPT ![Len(stack)].next = 1]
    /\ UNCHANGED <<pc, result, start_id>>
    /\ UNCHANGED <<classifyVars, extractVars, graphVars, md, batchVars>>

\* the call recurses into its next destination
ResolveDescend ==
    /\ pc = "resolving"
    /\ Top.next >= 1
    /\ Top.next <= Len(Destinations(edges, Top.node))
    /\ Len(stack) < MaxDepth
    /\ stack' = Append([stack EXCEPT ![Len(stack)].next = Top.next + 1],
                       [node |-> Destinations(edges, Top.node)[Top.next], next |-> 0])
    /\ UNCHANGED <<pc, result, visited, visit_log, start_id>>
    /\ UNCHANGED <<classifyVars, extractVars, graphVars, md, batchVars>>

\* no outgoing edge remains and every recursion came back empty
ResolveExhausted ==
    /\ pc = "resolving"
    /\ Top.next > Len(Destinations(edges, Top.node))
    /\ ReturnEmpty
    /\ UNCHANGED <<visited, visit_log, start_id>>
    /\ UNCHANGED <<classifyVars, extractVars, graphVars, md, batchVars>>

NextResolve ==
    \/ ResolveSkip \/ ResolveTerminal \/ ResolveExpand \/ ResolveDescend
    \/ ResolveExhausted

\* the call runs to completion: nothing suspends it
SpecResolve == InitResolve /\ [][NextResolve]_vars /\ WF_vars(NextResolve)

\* no node was visited twice
NoRevisit == \A i, j \in DOMAIN visit_log : visit_log[i] = visit_log[j] => i = j

\* no node that an edge or the table names has a terminal label
NoTerminalAnywhere ==
    \A id \in NodeIds(nodes) \cup {e[1] : e \in Range(edges)} \cup {e[3] : e \in Range(edges)} :
        ~IsTerminalLabel(GetLabel(nodes, id))

\* C7: one call of resolve_final_label never visits a node twice and always
\* terminates; where no node has a terminal label (as on the cycle
\* A -> B -> A) it returns "no result"; and a call that reaches a node already
\* visited in the walk comes back with no result for that branch, without
\* visiting the node again.
C7_PolicyACycleSafe ==
    /\ [](NoRevisit)
    /\ <>(pc = "done")
    /\ []((pc = "done" /\ NoTerminalAnywhere) => result = <<>>)
    /\ [][(pc = "resolving" /\ Top.next = 0 /\ Top.node \in visited)
            => (stack' = Pop /\ visited' = visited /\ visit_log' = visit_log
                /\ (pc' = "done" => result' = <<>>))]_vars

\* the walk over the cycle A -> B -> A with no terminal label is over
C7_Witness ==
    /\ pc = "done"
    /\ edges = << <<id_A, <<>>, id_B>>, <<id_B, <<>>, id_A>> >>
    /\ NoTerminalAnywhere
    /\ visit_log = <<id_A, id_B>>
    /\ result = <<>>

====
